---- MODULE Spec2Model ----
(***************************************************************************)
(* chaoslimba-mcp-server: the prerequisite-chain resolver                  *)
(* (cl_get_prerequisite_chain), the coverage report (cl_coverage_report),  *)
(* the content listing (cl_get_content), the CEFR band of a difficulty     *)
(* score, and the handler calls of the server in flight against one store. *)
(*                                                                         *)
(* Encodings.  A feature_key is a natural number standing for the string.  *)
(* A nullable value is a sequence of length at most one: <<>> is           *)
(* null/undefined and <<v>> is the value v.  A display name is a tuple of  *)
(* tokens.                                                                 *)
(***************************************************************************)
EXTENDS Integers, Sequences, FiniteSets, TLC

VARIABLES
    featureMap,   \* grammar.ts: Map feature_key -> row of grammar_feature_map
    featureKey,   \* grammar.ts: the featureKey argument of the request
    stack,        \* grammar.ts: the active buildTree invocations, outermost first
    visited,      \* grammar.ts: the Set threaded through buildTree
    tree,         \* grammar.ts: the value of `tree` (nullable)
    response,     \* grammar.ts: what the handler returned
    pc,           \* position of the cl_get_prerequisite_chain handler
    featuresResult, \* content.ts: featuresResult.rows of cl_coverage_report
    languageFeatures, \* content.ts: content_items.language_features, row by row
    coverage,     \* content.ts: what cl_coverage_report returned (nullable)
    content_items, \* content.ts: the rows of table content_items
    request,      \* content.ts: the arguments of the cl_get_content request
    contentResult, \* content.ts: result.rows of cl_get_content (nullable)
    difficulty,   \* cefr utility: the score handed to difficultyToCefr and to the CASE
    cefr,         \* cefr utility: what difficultyToCefr returned (nullable)
    partition,    \* content.ts: the value of the PARTITION BY CASE (nullable)
    db,           \* db.ts: the tables behind the pool, by name
    calls         \* the requests in flight: the local state of each handler call

grammarVars == <<featureMap, featureKey, stack, visited, tree, response, pc>>
coverageVars == <<featuresResult, languageFeatures, coverage>>
contentVars == <<content_items, request, contentResult>>
cefrVars == <<difficulty, cefr, partition>>
serverVars == <<db, calls>>
vars == <<grammarVars, coverageVars, contentVars, cefrVars, serverVars>>

-----------------------------------------------------------------------------
(* Bounds of the model *)

\* feature keys 1..NumKeys are catalogued in the exhaustively enumerated tables
NumKeys == 2
\* longest chain / ring of features among the structured tables
MaxChain == 15
\* frames the call stack holds before the engine raises RangeError
StackLimit == 14
\* features in the exhaustively enumerated catalogs of the coverage report
MaxFeatures == 3
\* features in the largest of the structured catalogs
MaxCatalog == 40
\* rows of content_items when they are drawn from all of ContentRows; tables
\* of rows of one type and topic hold two more
MaxItems == 2
\* largest `limit` argument of cl_get_content
MaxLimit == 7
\* largest score handed to difficultyToCefr, in tenths
MaxScore == 100
\* requests in flight at one time
MaxCalls == 2

-----------------------------------------------------------------------------
(* cl_get_prerequisite_chain *)

MaxDepth == 10

CEFR_LEVELS == <<"A1", "A2", "B1", "B2", "C1", "C2">>

NotFoundName == <<"(not found in grammar_feature_map)">>

FeatureRow(k, prereqs) ==
    [feature_key |-> k,
     feature_name |-> <<"feature", k>>,
     cefr_level |-> CEFR_LEVELS[((k - 1) % 6) + 1],
     prerequisites |-> prereqs]

PrunedNever(key, depth, vis) == FALSE

PrunedOffByOne(key, depth, vis) == depth >= MaxDepth \/ key \in vis

\* line 87: if (depth > 10 || visited.has(key)) return null;
Pruned(key, depth, vis) == depth > MaxDepth \/ key \in vis

VisitedAddForgotten(vis, key) == vis

\* line 88: visited.add(key)
VisitedAdd(vis, key) == vis \cup {key}

PlaceholderWithoutSentinel(key) ==
    [feature_key |-> key,
     feature_name |-> <<"feature", key>>,
     cefr_level |-> "A1",
     prerequisites |-> <<>>]

\* lines 92-97: the node returned when featureMap has no such key
Placeholder(key) ==
    [feature_key |-> key,
     feature_name |-> NotFoundName,
     cefr_level |-> "unknown",
     prerequisites |-> <<>>]

\* line 100: feature.prerequisites ?? []
Prereqs(feature) ==
    IF feature.prerequisites = <<>> THEN <<>> ELSE feature.prerequisites[1]

PushChildFront(children, child) == child \o children

\* line 105: if (child) children.push(child)
PushChild(children, child) == children \o child

\* lines 108-113
Node(feature, children) ==
    [feature_key |-> feature.feature_key,
     feature_name |-> feature.feature_name,
     cefr_level |-> feature.cefr_level,
     prerequisites |-> children]

\* lines 118-137: the error result when tree is null, the tree otherwise
Respond(t) ==
    IF t = <<>> THEN [isError |-> TRUE, tree |-> <<>>]
    ELSE [isError |-> FALSE, tree |-> t]

NoResponse == [isError |-> FALSE, tree |-> <<>>]

Top == stack[Len(stack)]

\* the caller of a finished buildTree call receives ret: the handler (line 116)
\* when no frame is left, the for loop of the calling frame otherwise (104-105)
Finish(stk, ret) ==
    IF stk = <<>>
    THEN /\ stack' = <<>>
         /\ tree' = ret
         /\ pc' = "respond"
    ELSE /\ stack' = [stk EXCEPT ![Len(stk)] =
                        [@ EXCEPT !.children = PushChild(@, ret), !.i = @ + 1]]
         /\ tree' = tree
         /\ pc' = "build"

\* entry of buildTree(key, depth, visited), lines 86-101
Invoke(key, depth, stk) ==
    IF Pruned(key, depth, visited)
    THEN visited' = visited /\ Finish(stk, <<>>)
    ELSE IF key \notin DOMAIN featureMap
    THEN visited' = VisitedAdd(visited, key) /\ Finish(stk, <<Placeholder(key)>>)
    ELSE IF Len(stk) >= StackLimit
    THEN /\ visited' = VisitedAdd(visited, key)
         /\ pc' = "overflow"
         /\ UNCHANGED <<stack, tree>>
    ELSE /\ visited' = VisitedAdd(visited, key)
         /\ stack' = Append(stk, [key |-> key, depth |-> depth, i |-> 1,
                                  children |-> <<>>])
         /\ tree' = tree
         /\ pc' = "build"

\* line 116: const tree = buildTree(featureKey, 0, new Set())
CallRoot ==
    /\ pc = "start"
    /\ Invoke(featureKey, 0, <<>>)
    /\ UNCHANGED <<featureMap, featureKey, response, coverageVars, contentVars, cefrVars, serverVars>>

\* lines 103-104: the next iteration of the for loop calls buildTree
CallChild ==
    /\ pc = "build"
    /\ stack # <<>>
    /\ Top.i <= Len(Prereqs(featureMap[Top.key]))
    /\ Invoke(Prereqs(featureMap[Top.key])[Top.i], Top.depth + 1, stack)
    /\ UNCHANGED <<featureMap, featureKey, response, coverageVars, contentVars, cefrVars, serverVars>>

\* lines 108-113: the for loop is over, the frame returns its node
Return ==
    /\ pc = "build"
    /\ stack # <<>>
    /\ Top.i > Len(Prereqs(featureMap[Top.key]))
    /\ Finish(SubSeq(stack, 1, Len(stack) - 1),
              <<Node(featureMap[Top.key], Top.children)>>)
    /\ UNCHANGED <<featureMap, featureKey, visited, response, coverageVars, contentVars, cefrVars, serverVars>>

\* lines 118-138
SendResponse ==
    /\ pc = "respond"
    /\ response' = Respond(tree)
    /\ pc' = "done"
    /\ UNCHANGED <<featureMap, featureKey, stack, visited, tree, coverageVars, contentVars, cefrVars, serverVars>>

(* The feature tables of the model *)

Refs == 1 .. (NumKeys + 1)

PrereqLists == {<<>>} \cup [1..1 -> Refs] \cup [1..2 -> Refs]

\* prerequisites: string[] | null
PrereqColumns == {<<>>} \cup {<<l>> : l \in PrereqLists}

SmallTables ==
    UNION {[D -> PrereqColumns] : D \in SUBSET (1 .. NumKeys)}

\* 1 requires 2 requires ... requires n; n requires `last`
Linked(n, last) == [k \in 1..n |-> IF k < n THEN <<<<k + 1>>>> ELSE last]

ChainTables ==
    UNION {{Linked(n, <<<<>>>>), Linked(n, <<>>), Linked(n, <<<<1>>>>),
            Linked(n, <<<<n + 1>>>>)} : n \in 1..MaxChain}

\* the chain 1 requires 2 requires ... requires n, in which 1 also requires
\* n - 1, listed after 2
Shortcut(n) ==
    [k \in 1..n |->
        IF k = 1 THEN <<<<2, n - 1>>>> ELSE IF k < n THEN <<<<k + 1>>>> ELSE <<<<>>>>]

ShortcutTables == {Shortcut(n) : n \in 3..MaxChain}

TableOf(cols) == [k \in DOMAIN cols |-> FeatureRow(k, cols[k])]

Init ==
    /\ \/ \E cols \in SmallTables :
            /\ featureMap = TableOf(cols)
            /\ featureKey \in Refs
       \/ \E cols \in ChainTables \cup ShortcutTables :
            /\ featureMap = TableOf(cols)
            /\ featureKey \in {1, 2}
    /\ stack = <<>>
    /\ visited = {}
    /\ tree = <<>>
    /\ response = NoResponse
    /\ pc = "start"
    /\ featuresResult = <<>>
    /\ languageFeatures = <<>>
    /\ coverage = <<>>
    /\ content_items = {}
    /\ request = <<>>
    /\ contentResult = <<>>
    /\ difficulty = 0
    /\ cefr = <<>>
    /\ partition = <<>>
    /\ db = <<>>
    /\ calls = <<>>

Next == CallRoot \/ CallChild \/ Return \/ SendResponse

Spec == Init /\ [][Next]_vars

\* the handler runs to completion once invoked
LiveSpec == Spec /\ WF_vars(Next)

-----------------------------------------------------------------------------
(* IEEE 754 binary64 arithmetic, as far as coverage_percent needs it.  A     *)
(* positive double is [hi, mid, lo, e]: its 53-bit significand is            *)
(* hi * 2^40 + mid * 2^20 + lo with 2^12 <= hi < 2^13 and mid, lo < 2^20,    *)
(* and its value is the significand times 2^e.                               *)

Front(s) == SubSeq(s, 1, Len(s) - 1)

Limb == 2 ^ 20

Float64Zero == [hi |-> 0, mid |-> 0, lo |-> 0, e |-> 0]

\* the significand one unit in the last place up
Float64Up(x) ==
    IF x.lo + 1 < Limb THEN [x EXCEPT !.lo = @ + 1]
    ELSE IF x.mid + 1 < Limb THEN [x EXCEPT !.lo = 0, !.mid = @ + 1]
    ELSE IF x.hi + 1 < 2 ^ 13 THEN [x EXCEPT !.lo = 0, !.mid = 0, !.hi = @ + 1]
    ELSE [hi |-> 2 ^ 12, mid |-> 0, lo |-> 0, e |-> x.e + 1]

\* round to nearest, ties to even: x is the truncated result, `twice` is twice
\* what was cut off and `unit` the weight of the last place
Float64Nearest(x, twice, unit) ==
    IF twice > unit \/ (twice = unit /\ x.lo % 2 = 1) THEN Float64Up(x) ELSE x

RECURSIVE NormShift(_, _)
\* the least k with c * 2^k >= t
NormShift(c, t) == IF c >= t THEN 0 ELSE 1 + NormShift(2 * c, t)

\* c / t in double arithmetic, for integers 0 <= c <= t < 2^10: long division,
\* 13 bits and then twice 20 bits of the quotient
Float64Div(c, t) ==
    IF c = 0 THEN Float64Zero
    ELSE LET k == NormShift(c, t)
             n2 == c * (2 ^ k) * (2 ^ 12)
             n1 == (n2 % t) * Limb
             n0 == (n1 % t) * Limb
         IN  Float64Nearest([hi |-> n2 \div t, mid |-> n1 \div t, lo |-> n0 \div t,
                             e |-> 0 - k - 52],
                            2 * (n0 % t), t)

\* x * 100 in double arithmetic: the exact product has 59 or 60 bits
Float64Times100(x) ==
    IF x = Float64Zero THEN Float64Zero
    ELSE LET p0 == x.lo * 100
             p1 == x.mid * 100 + p0 \div Limb
             p2 == x.hi * 100 + p1 \div Limb
             l0 == p0 % Limb
             l1 == p1 % Limb
             s == IF p2 >= 2 ^ 19 THEN 7 ELSE 6
         IN  Float64Nearest([hi |-> p2 \div (2 ^ s),
                             mid |-> l1 \div (2 ^ s) + (p2 % (2 ^ s)) * (2 ^ (20 - s)),
                             lo |-> l0 \div (2 ^ s) + (l1 % (2 ^ s)) * (2 ^ (20 - s)),
                             e |-> x.e + s],
                            2 * (l0 % (2 ^ s)), 2 ^ s)

\* Math.round: the nearest integer, a tie going up (0 <= x < 2^12)
MathRound(x) ==
    IF x = Float64Zero THEN 0
    ELSE LET n == 53 + x.e
         IN  IF n < 0 THEN 0
             ELSE IF n = 0 THEN 1
             ELSE (x.hi \div (2 ^ (13 - n))) + ((x.hi \div (2 ^ (12 - n))) % 2)

-----------------------------------------------------------------------------
(* cl_coverage_report *)

\* line 135: WHERE language_features IS NOT NULL
IsNotNull(languageFeaturesValue) == languageFeaturesValue # <<>>

ContentResult(column) == SelectSeq(column, IsNotNull)

\* line 142: row.language_features?.grammar ?? []
GrammarFeatures(row) ==
    IF row = <<>> THEN <<>>
    ELSE IF row[1] = <<>> THEN <<>>
    ELSE row[1][1]

\* featureCounts.get(k) || 0
GetOrZero(counts, k) == IF k \in DOMAIN counts THEN counts[k] ELSE 0

\* featureCounts.set(k, v)
MapSet(counts, k, v) ==
    [x \in DOMAIN counts \cup {k} |-> IF x = k THEN v ELSE counts[x]]

RECURSIVE CountGrammarOnce(_, _)
CountGrammarOnce(counts, grammar) ==
    IF grammar = <<>> THEN counts
    ELSE CountGrammarOnce(MapSet(counts, Head(grammar), 1), Tail(grammar))

RECURSIVE CountGrammar(_, _)
\* lines 143-145
CountGrammar(counts, grammar) ==
    IF grammar = <<>> THEN counts
    ELSE CountGrammar(MapSet(counts, Head(grammar), GetOrZero(counts, Head(grammar)) + 1),
                      Tail(grammar))

RECURSIVE CountRows(_, _)
\* lines 141-146
CountRows(counts, rows) ==
    IF rows = <<>> THEN counts
    ELSE CountRows(CountGrammar(counts, GrammarFeatures(Head(rows))), Tail(rows))

\* lines 149-159
ReportRow(f, counts) ==
    [feature_key |-> f.feature_key,
     feature_name |-> f.feature_name,
     cefr_level |-> f.cefr_level,
     category |-> f.category,
     content_count |-> GetOrZero(counts, f.feature_key),
     is_gap |-> GetOrZero(counts, f.feature_key) = 0]

\* line 162
cefrOrder == <<"A1", "A2", "B1", "B2", "C1", "C2">>

\* Array.prototype.indexOf
IndexOf(array, v) ==
    IF \E j \in 1..Len(array) : array[j] = v
    THEN (CHOOSE j \in 1..Len(array) :
             array[j] = v /\ \A h \in 1..(j - 1) : array[h] # v) - 1
    ELSE -1

CompareLevelOnly(a, b) ==
    IndexOf(cefrOrder, a.cefr_level) - IndexOf(cefrOrder, b.cefr_level)

\* lines 163-167: the comparator
Compare(a, b) ==
    LET levelDiff == IndexOf(cefrOrder, a.cefr_level) - IndexOf(cefrOrder, b.cefr_level)
    IN  IF levelDiff # 0 THEN levelDiff ELSE a.content_count - b.content_count

\* x goes behind every element that does not compare greater than it
InsertSorted(sorted, x) ==
    LET later == {j \in 1..Len(sorted) : Compare(sorted[j], x) > 0}
        at == IF later = {} THEN Len(sorted) + 1
              ELSE CHOOSE j \in later : \A h \in later : j <= h
    IN  SubSeq(sorted, 1, at - 1) \o <<x>> \o SubSeq(sorted, at, Len(sorted))

RECURSIVE Sort(_)
\* Array.prototype.sort with the comparator: a stable sort
Sort(rows) ==
    IF rows = <<>> THEN <<>>
    ELSE InsertSorted(Sort(Front(rows)), rows[Len(rows)])

\* line 182
CoveragePercent(totalFeatures, gaps) ==
    IF totalFeatures > 0
    THEN MathRound(Float64Times100(Float64Div(totalFeatures - gaps, totalFeatures)))
    ELSE 0

\* lines 169-185
Summary(report) ==
    LET totalFeatures == Len(report)
        gaps == Cardinality({j \in 1..Len(report) : report[j].is_gap})
    IN  [total_features |-> totalFeatures,
         covered |-> totalFeatures - gaps,
         gaps |-> gaps,
         coverage_percent |-> CoveragePercent(totalFeatures, gaps)]

\* lines 122-192: the whole handler
ClCoverageReport ==
    /\ coverage = <<>>
    /\ LET featureCounts == CountRows(<<>>, ContentResult(languageFeatures))
           report == Sort([j \in 1..Len(featuresResult) |->
                             ReportRow(featuresResult[j], featureCounts)])
       IN  coverage' = <<[summary |-> Summary(report), features |-> report]>>
    /\ UNCHANGED <<featuresResult, languageFeatures, grammarVars, contentVars, cefrVars, serverVars>>

(* The catalogs and content sets of the model *)

\* a row of line 130's result
CatalogRow(k, level) ==
    [feature_key |-> k, feature_name |-> <<"feature", k>>,
     cefr_level |-> level, category |-> "category"]

\* line 130: ORDER BY cefr_level, sort_order -- the rows come ordered by the
\* text of cefr_level; feature_key k is the k-th row
OrderedLevels(n) ==
    {ls \in [1..n -> 1..6] : \A j \in 1..(n - 1) : ls[j] <= ls[j + 1]}

GrammarLists(n) ==
    {<<>>} \cup [1..1 -> 1..(n + 1)] \cup [1..2 -> 1..(n + 1)]

\* language_features: null, an object without grammar, an object with grammar
LanguageFeatureValues(n) ==
    {<<>>, <<<<>>>>} \cup {<<<<g>>>> : g \in GrammarLists(n)}

ContentColumns(n) ==
    {<<>>} \cup [1..1 -> LanguageFeatureValues(n)] \cup [1..2 -> LanguageFeatureValues(n)]

\* n features spread over the levels; one item names features 1..c, a second
\* one the first half of them
SpreadCatalog(n) == [k \in 1..n |-> CatalogRow(k, cefrOrder[((k - 1) * 6) \div n + 1])]

SpreadContent(c) ==
    <<<<<<[j \in 1..c |-> j]>>>>, <<<<[j \in 1..(c \div 2) |-> j]>>>>>>

CoverageInit ==
    /\ \/ \E n \in 0..MaxFeatures : \E ls \in OrderedLevels(n) :
            /\ featuresResult = [k \in 1..n |-> CatalogRow(k, cefrOrder[ls[k]])]
            /\ languageFeatures \in ContentColumns(n)
       \/ \E n \in 1..MaxCatalog : \E c \in 0..n :
            /\ featuresResult = SpreadCatalog(n)
            /\ languageFeatures = SpreadContent(c)
    /\ coverage = <<>>
    /\ featureMap = <<>>
    /\ featureKey = 0
    /\ stack = <<>>
    /\ visited = {}
    /\ tree = <<>>
    /\ response = NoResponse
    /\ pc = "idle"
    /\ difficulty = 0
    /\ cefr = <<>>
    /\ partition = <<>>
    /\ db = <<>>
    /\ calls = <<>>
    /\ content_items = {}
    /\ request = <<>>
    /\ contentResult = <<>>

CoverageNext == ClCoverageReport

CoverageSpec == CoverageInit /\ [][CoverageNext]_vars

-----------------------------------------------------------------------------
(* cl_get_content.  difficulty_level is counted in tenths (2.0 is 20); a     *)
(* topic is a sequence of letters; the rows of the model differ in some      *)
(* selected column other than id, so a row is its own identity.              *)

\* ILIKE compares without regard to case
Lower(ch) ==
    CASE ch = "F" -> "f" [] ch = "O" -> "o" [] ch = "A" -> "a" [] OTHER -> ch

\* line 42-43: topic ILIKE '%' || pattern || '%'
ILikeContains(text, pattern) ==
    \E off \in 0..(Len(text) - Len(pattern)) :
        \A j \in 1..Len(pattern) : Lower(text[off + j]) = Lower(pattern[j])

\* lines 35-55: the WHERE clause built from the arguments that are present
WhereClause(row, req) ==
    /\ req.difficultyLevel # <<>> => row.difficulty_level = req.difficultyLevel[1]
    /\ req.topic # <<>> => ILikeContains(row.topic, req.topic[1])
    /\ req.type # <<>> => row.type = req.type[1]

\* lines 77-84: the CASE expression of PARTITION BY
CefrCase(difficulty_level) ==
    IF difficulty_level <= 20 THEN "A1"
    ELSE IF difficulty_level <= 35 THEN "A2"
    ELSE IF difficulty_level <= 50 THEN "B1"
    ELSE IF difficulty_level <= 70 THEN "B2"
    ELSE IF difficulty_level <= 90 THEN "C1"
    ELSE "C2"

PerBandCapFloorPlusOne(limit) == limit \div 6 + 1

PerBandCapUndivided(limit) == limit

\* line 94: Math.ceil(limit / 6)
PerBandCap(limit) == (limit + 5) \div 6

RECURSIVE Orders(_)
\* the rows of S in every order
Orders(S) ==
    IF S = {} THEN {<<>>}
    ELSE UNION {{<<x>> \o o : o \in Orders(S \ {x})} : x \in S}

\* ORDER BY created_at (lines 65 and 85): rows of one created_at come in any order
OrderByCreatedAt(S) ==
    {o \in Orders(S) :
        \A i, j \in 1..Len(o) : i < j => o[i].created_at <= o[j].created_at}

OrderByCreatedAtAlone(S) ==
    {o \in Orders(S) :
        \A i, j \in 1..Len(o) : i < j => o[i].created_at <= o[j].created_at}

\* ORDER BY difficulty_level, created_at (line 91)
OrderByDifficultyThenCreatedAt(S) ==
    {o \in Orders(S) :
        \A i, j \in 1..Len(o) : i < j =>
            \/ o[i].difficulty_level < o[j].difficulty_level
            \/ /\ o[i].difficulty_level = o[j].difficulty_level
               /\ o[i].created_at <= o[j].created_at}

\* lines 76-86: ROW_NUMBER() OVER (PARTITION BY band ORDER BY created_at), in the
\* window order o
RowNumber(o, j) ==
    Cardinality({h \in 1..j : CefrCase(o[h].difficulty_level) = CefrCase(o[j].difficulty_level)})

Prefix(o, n) == SubSeq(o, 1, IF n < Len(o) THEN n ELSE Len(o))

\* lines 61-67: the rows the exact-difficulty query may return
ExactQuery(req) ==
    {Prefix(o, req.limit) :
        o \in OrderByCreatedAt({r \in content_items : WhereClause(r, req)})}

\* lines 72-94: the rows the stratified query may return
StratifiedQuery(req) ==
    UNION {OrderByDifficultyThenCreatedAt(
               {o[j] : j \in {h \in 1..Len(o) : RowNumber(o, h) <= PerBandCap(req.limit)}}) :
           o \in OrderByCreatedAt({r \in content_items : WhereClause(r, req)})}

\* lines 59-97
Query(req) ==
    IF req.difficultyLevel # <<>> THEN ExactQuery(req) ELSE StratifiedQuery(req)

(* The tables and arguments of the model *)

Difficulties == {15, 20, 21}

Topics == {<<"F", "o", "o", "d">>, <<"A", "r", "t">>}

TopicPatterns == {<<"f", "O">>}

ContentTypes == {"audio", "text"}

ContentRows ==
    [type : ContentTypes, difficulty_level : Difficulties, topic : Topics,
     created_at : 1..2]

Requests ==
    [difficultyLevel : {<<>>} \cup {<<d>> : d \in Difficulties},
     topic : {<<>>} \cup {<<t>> : t \in TopicPatterns},
     type : {<<>>} \cup {<<t>> : t \in ContentTypes},
     limit : 1..MaxLimit]

\* lines 28-107: the whole handler
ClGetContent ==
    /\ contentResult = <<>>
    /\ \E req \in Requests :
          /\ request' = <<req>>
          /\ \E rows \in Query(req) : contentResult' = <<rows>>
    /\ UNCHANGED <<content_items, grammarVars, coverageVars, cefrVars, serverVars>>

\* rows that differ in difficulty_level and created_at only
AlikeRows == {r \in ContentRows : r.type = "audio" /\ r.topic = <<"F", "o", "o", "d">>}

\* one row in every band and a second one in A1, the easier the later created
LadderRows ==
    {[type |-> "text", topic |-> <<"A", "r", "t">>, difficulty_level |-> p[1],
      created_at |-> p[2]] :
        p \in {<<95, 1>>, <<80, 2>>, <<60, 3>>, <<45, 4>>, <<30, 5>>, <<20, 6>>,
               <<15, 7>>}}

ContentTables ==
    {S \in SUBSET ContentRows : Cardinality(S) <= MaxItems}
    \cup {S \in SUBSET AlikeRows : Cardinality(S) <= MaxItems + 2}
    \cup {LadderRows} \cup {LadderRows \ {r} : r \in LadderRows}

ContentInit ==
    /\ content_items \in ContentTables
    /\ request = <<>>
    /\ contentResult = <<>>
    /\ featuresResult = <<>>
    /\ languageFeatures = <<>>
    /\ coverage = <<>>
    /\ featureMap = <<>>
    /\ featureKey = 0
    /\ stack = <<>>
    /\ visited = {}
    /\ tree = <<>>
    /\ response = NoResponse
    /\ pc = "idle"
    /\ difficulty = 0
    /\ cefr = <<>>
    /\ partition = <<>>
    /\ db = <<>>
    /\ calls = <<>>

ContentNext == ClGetContent

ContentSpec == ContentInit /\ [][ContentNext]_vars

-----------------------------------------------------------------------------
(* The CEFR utility: difficultyToCefr, and the CASE expression of the        *)
(* stratified query evaluated on the same score.  Scores are in tenths.      *)

DifficultyToCefrStrictA1(d) ==
    IF d < 20 THEN "A1"
    ELSE IF d <= 35 THEN "A2"
    ELSE IF d <= 50 THEN "B1"
    ELSE IF d <= 70 THEN "B2"
    ELSE IF d <= 90 THEN "C1"
    ELSE "C2"

\* difficultyToCefr
DifficultyToCefr(d) ==
    IF d <= 20 THEN "A1"
    ELSE IF d <= 35 THEN "A2"
    ELSE IF d <= 50 THEN "B1"
    ELSE IF d <= 70 THEN "B2"
    ELSE IF d <= 90 THEN "C1"
    ELSE "C2"

\* a call of difficultyToCefr(difficulty)
CallDifficultyToCefr ==
    /\ cefr = <<>>
    /\ cefr' = <<DifficultyToCefr(difficulty)>>
    /\ UNCHANGED <<difficulty, partition, grammarVars, coverageVars, contentVars, serverVars>>

\* the PARTITION BY CASE of the stratified query on a row of this difficulty_level
PartitionByCase ==
    /\ partition = <<>>
    /\ partition' = <<CefrCase(difficulty)>>
    /\ UNCHANGED <<difficulty, cefr, grammarVars, coverageVars, contentVars, serverVars>>

\* scores 0.0 .. MaxScore / 10
Scores == 0..MaxScore

CefrInit ==
    /\ difficulty \in Scores
    /\ cefr = <<>>
    /\ partition = <<>>
    /\ db = <<>>
    /\ calls = <<>>
    /\ content_items = {}
    /\ request = <<>>
    /\ contentResult = <<>>
    /\ featuresResult = <<>>
    /\ languageFeatures = <<>>
    /\ coverage = <<>>
    /\ featureMap = <<>>
    /\ featureKey = 0
    /\ stack = <<>>
    /\ visited = {}
    /\ tree = <<>>
    /\ response = NoResponse
    /\ pc = "idle"

CefrNext == CallDifficultyToCefr \/ PartitionByCase

CefrSpec == CefrInit /\ [][CefrNext]_vars

-----------------------------------------------------------------------------
(* The server: handler calls in flight against one store.  A handler runs    *)
(* up to its next await, the statement it hands to query() is executed, and  *)
(* the call goes on with the rows; calls take their steps in any order.      *)

SelectAsDelete(table) == [verb |-> "DELETE", table |-> table]

\* a statement whose text starts with SELECT and reads the table
Select(table) == [verb |-> "SELECT", table |-> table]

\* db.ts, query(): what pool.query of the statement leaves in the tables
Execute(stmt, tables) ==
    IF stmt.verb = "SELECT" THEN tables
    ELSE [tables EXCEPT ![stmt.table] = <<>>]

\* grammar.ts line 72
PrerequisiteChainStatement == Select("grammar_feature_map")

\* content.ts line 130
CoverageFeaturesStatement == Select("grammar_feature_map")

\* content.ts line 135
CoverageContentStatement == Select("content_items")

\* the statements of the tools whose rows go to the client as they come
GrammarMapStatements == {Select("grammar_feature_map")}

ContentStatements == {Select("content_items")}

SchemaStatements ==
    {Select(t) : t \in {"information_schema.columns", "sessions", "proficiency_history",
                        "user_feature_exposure", "mystery_items", "generated_content",
                        "learning_narratives"}}

UsageStatements == {Select("tts_usage")}

ExerciseStatements ==
    {Select(t) : t \in {"reading_questions", "stress_minimal_pairs",
                        "suggested_questions", "tutor_opening_messages"}}

ErrorStatements == {Select(t) : t \in {"error_logs", "adaptation_interventions"}}

ListingStatements ==
    GrammarMapStatements \cup ContentStatements \cup SchemaStatements
    \cup UsageStatements \cup ExerciseStatements \cup ErrorStatements

TableNames == {stmt.table : stmt \in ListingStatements}

\* a handler call that has not been made
IdleCall ==
    [tool |-> "none", pc |-> "idle", featureKey |-> 0, featureMap |-> <<>>,
     stack |-> <<>>, visited |-> {}, tree |-> <<>>, featuresResult |-> <<>>,
     contentResult |-> <<>>, featureCounts |-> <<>>, i |-> 0, response |-> <<>>]

\* grammar.ts lines 75-77: new Map(result.rows.map(r => [r.feature_key, r]))
MapOf(rows) ==
    [k \in {rows[j].feature_key : j \in 1..Len(rows)} |->
        LET last == CHOOSE j \in 1..Len(rows) :
                        /\ rows[j].feature_key = k
                        /\ \A h \in (j + 1)..Len(rows) : rows[h].feature_key # k
        IN  [feature_key |-> k,
             feature_name |-> rows[last].feature_name,
             cefr_level |-> rows[last].cefr_level,
             prerequisites |-> rows[last].prerequisites]]

\* content.ts line 130: the selected columns, in the order of the table
CatalogOf(rows) ==
    [j \in 1..Len(rows) |->
        [feature_key |-> rows[j].feature_key,
         feature_name |-> rows[j].feature_name,
         cefr_level |-> rows[j].cefr_level,
         category |-> rows[j].category]]

NewSetLeftOver(r) == UNION {calls[q].visited : q \in DOMAIN calls}

\* grammar.ts line 116: new Set(), made by call r
NewSet(r) == {}

NewMapLeftOver(r) ==
    LET others == {q \in DOMAIN calls : calls[q].featureCounts # <<>>}
    IN  IF others = {} THEN <<>> ELSE calls[CHOOSE q \in others : TRUE].featureCounts

\* content.ts line 139: new Map(), made by call r
NewMap(r) == <<>>

\* the caller of a finished buildTree call of the handler call c receives ret
Finished(c, stk, ret) ==
    IF stk = <<>>
    THEN [c EXCEPT !.stack = <<>>, !.tree = ret, !.pc = "respond"]
    ELSE [c EXCEPT !.stack = [stk EXCEPT ![Len(stk)] =
                                 [@ EXCEPT !.children = PushChild(@, ret), !.i = @ + 1]],
                   !.pc = "build"]

\* entry of buildTree(key, depth, visited) in the handler call c, lines 86-101
Invoked(c, key, depth, stk) ==
    IF Pruned(key, depth, c.visited)
    THEN Finished(c, stk, <<>>)
    ELSE IF key \notin DOMAIN c.featureMap
    THEN Finished([c EXCEPT !.visited = VisitedAdd(@, key)], stk, <<Placeholder(key)>>)
    ELSE [c EXCEPT !.visited = VisitedAdd(@, key),
                   !.stack = Append(stk, [key |-> key, depth |-> depth, i |-> 1,
                                          children |-> <<>>]),
                   !.pc = "build"]

\* grammar.ts lines 64-77: the request arrives and the table is fetched
PrerequisiteChainFetch(r) ==
    /\ calls[r] = IdleCall
    /\ \E key \in Refs :
          calls' = [calls EXCEPT ![r] =
                       [IdleCall EXCEPT !.tool = "cl_get_prerequisite_chain",
                                        !.pc = "start",
                                        !.featureKey = key,
                                        !.featureMap = MapOf(db.grammar_feature_map)]]
    /\ db' = Execute(PrerequisiteChainStatement, db)
    /\ UNCHANGED <<grammarVars, coverageVars, contentVars, cefrVars>>

\* grammar.ts line 116
PrerequisiteChainCallRoot(r) ==
    /\ calls[r].pc = "start"
    /\ calls' = [calls EXCEPT ![r] =
                    Invoked([@ EXCEPT !.visited = NewSet(r)], @.featureKey, 0, <<>>)]
    /\ UNCHANGED <<db, grammarVars, coverageVars, contentVars, cefrVars>>

\* grammar.ts lines 103-104
PrerequisiteChainCallChild(r) ==
    LET c == calls[r]
        top == c.stack[Len(c.stack)]
    IN  /\ c.pc = "build"
        /\ top.i <= Len(Prereqs(c.featureMap[top.key]))
        /\ calls' = [calls EXCEPT ![r] =
                        Invoked(c, Prereqs(c.featureMap[top.key])[top.i],
                                top.depth + 1, c.stack)]
        /\ UNCHANGED <<db, grammarVars, coverageVars, contentVars, cefrVars>>

\* grammar.ts lines 108-113
PrerequisiteChainReturn(r) ==
    LET c == calls[r]
        top == c.stack[Len(c.stack)]
    IN  /\ c.pc = "build"
        /\ top.i > Len(Prereqs(c.featureMap[top.key]))
        /\ calls' = [calls EXCEPT ![r] =
                        Finished(c, SubSeq(c.stack, 1, Len(c.stack) - 1),
                                 <<Node(c.featureMap[top.key], top.children)>>)]
        /\ UNCHANGED <<db, grammarVars, coverageVars, contentVars, cefrVars>>

\* grammar.ts lines 118-138
PrerequisiteChainRespond(r) ==
    /\ calls[r].pc = "respond"
    /\ calls' = [calls EXCEPT ![r] =
                    [@ EXCEPT !.response = <<Respond(calls[r].tree)>>, !.pc = "done"]]
    /\ UNCHANGED <<db, grammarVars, coverageVars, contentVars, cefrVars>>

\* content.ts lines 122-131: the request arrives and the catalog is fetched
CoverageFetchFeatures(r) ==
    /\ calls[r] = IdleCall
    /\ calls' = [calls EXCEPT ![r] =
                    [IdleCall EXCEPT !.tool = "cl_coverage_report",
                                     !.pc = "content",
                                     !.featuresResult = CatalogOf(db.grammar_feature_map)]]
    /\ db' = Execute(CoverageFeaturesStatement, db)
    /\ UNCHANGED <<grammarVars, coverageVars, contentVars, cefrVars>>

\* content.ts lines 134-139
CoverageFetchContent(r) ==
    /\ calls[r].pc = "content"
    /\ calls' = [calls EXCEPT ![r] =
                    [@ EXCEPT !.contentResult = ContentResult(db.content_items),
                              !.featureCounts = NewMap(r),
                              !.i = 1,
                              !.pc = "count"]]
    /\ db' = Execute(CoverageContentStatement, db)
    /\ UNCHANGED <<grammarVars, coverageVars, contentVars, cefrVars>>

\* content.ts lines 140-146: one turn of the loop over contentResult.rows
CoverageCountRow(r) ==
    LET c == calls[r]
    IN  /\ c.pc = "count"
        /\ c.i <= Len(c.contentResult)
        /\ calls' = [calls EXCEPT ![r] =
                        [c EXCEPT !.featureCounts =
                                      CountGrammar(@, GrammarFeatures(c.contentResult[c.i])),
                                  !.i = @ + 1]]
        /\ UNCHANGED <<db, grammarVars, coverageVars, contentVars, cefrVars>>

\* content.ts lines 149-192
CoverageRespond(r) ==
    LET c == calls[r]
        report == Sort([j \in 1..Len(c.featuresResult) |->
                          ReportRow(c.featuresResult[j], c.featureCounts)])
    IN  /\ c.pc = "count"
        /\ c.i > Len(c.contentResult)
        /\ calls' = [calls EXCEPT ![r] =
                        [c EXCEPT !.response =
                                      <<[summary |-> Summary(report), features |-> report]>>,
                                  !.pc = "done"]]
        /\ UNCHANGED <<db, grammarVars, coverageVars, contentVars, cefrVars>>

\* the tools that send the rows of one statement to the client; the table
\* read stands for the rows
Listing(r) ==
    /\ calls[r] = IdleCall
    /\ \E stmt \in ListingStatements :
          /\ calls' = [calls EXCEPT ![r] =
                          [IdleCall EXCEPT !.tool = "listing",
                                           !.response = <<stmt.table>>,
                                           !.pc = "done"]]
          /\ db' = Execute(stmt, db)
    /\ UNCHANGED <<grammarVars, coverageVars, contentVars, cefrVars>>

\* the client has the response; the next request may come
Forget(r) ==
    /\ calls[r].pc = "done"
    /\ calls' = [calls EXCEPT ![r] = IdleCall]
    /\ UNCHANGED <<db, grammarVars, coverageVars, contentVars, cefrVars>>

RECURSIVE BuildTree(_, _, _, _), BuildChildren(_, _, _, _, _)
\* grammar.ts lines 86-114: buildTree run from entry to return on the feature
\* table map; the node it returns (nullable) and the visited set it leaves
BuildTree(map, key, depth, vis) ==
    IF Pruned(key, depth, vis) THEN [node |-> <<>>, visited |-> vis]
    ELSE IF key \notin DOMAIN map
    THEN [node |-> <<Placeholder(key)>>, visited |-> VisitedAdd(vis, key)]
    ELSE LET loop == BuildChildren(map, Prereqs(map[key]), depth + 1,
                                   VisitedAdd(vis, key), <<>>)
         IN  [node |-> <<Node(map[key], loop.children)>>, visited |-> loop.visited]

\* lines 102-106: the for loop over the prerequisites still to come
BuildChildren(map, prereqs, depth, vis, children) ==
    IF prereqs = <<>> THEN [children |-> children, visited |-> vis]
    ELSE LET child == BuildTree(map, Head(prereqs), depth, vis)
         IN  BuildChildren(map, Tail(prereqs), depth, child.visited,
                           PushChild(children, child.node))

\* content.ts lines 138-192 run from the fetched rows to the response
CoverageOf(features, content) ==
    LET featureCounts == CountRows(<<>>, content)
        report == Sort([j \in 1..Len(features) |-> ReportRow(features[j], featureCounts)])
    IN  [summary |-> Summary(report), features |-> report]

(* The stores of the model *)

\* a row of grammar_feature_map; the table is kept in ORDER BY cefr_level, sort_order
StoredFeature(k, prereqs) ==
    [feature_key |-> k,
     feature_name |-> <<"feature", k>>,
     cefr_level |-> CEFR_LEVELS[((k - 1) % 6) + 1],
     category |-> "category",
     prerequisites |-> prereqs]

\* features 1 and 2 require each other and 1 a feature that is not catalogued;
\* or one feature alone, its prerequisites null
StoredCatalogs ==
    {<<StoredFeature(1, <<<<2, 3>>>>), StoredFeature(2, <<<<1>>>>)>>,
     <<StoredFeature(1, <<>>)>>}

\* content_items.language_features, row by row
StoredContents ==
    {<<<<>>, <<<<>>>>, <<<<<<1, 1, 3>>>>>>>>,
     <<<<<<<<2>>>>>>, <<<<<<1, 2>>>>>>>>}

Stores ==
    {[t \in TableNames |->
         CASE t = "grammar_feature_map" -> catalog
           [] t = "content_items" -> contents
           [] OTHER -> <<"rows">>] :
     catalog \in StoredCatalogs, contents \in StoredContents}

ServerInit ==
    /\ db \in Stores
    /\ calls = [r \in 1..MaxCalls |-> IdleCall]
    /\ difficulty = 0
    /\ cefr = <<>>
    /\ partition = <<>>
    /\ content_items = {}
    /\ request = <<>>
    /\ contentResult = <<>>
    /\ featuresResult = <<>>
    /\ languageFeatures = <<>>
    /\ coverage = <<>>
    /\ featureMap = <<>>
    /\ featureKey = 0
    /\ stack = <<>>
    /\ visited = {}
    /\ tree = <<>>
    /\ response = NoResponse
    /\ pc = "idle"

ServerNext ==
    \E r \in 1..MaxCalls :
        \/ PrerequisiteChainFetch(r)
        \/ PrerequisiteChainCallRoot(r)
        \/ PrerequisiteChainCallChild(r)
        \/ PrerequisiteChainReturn(r)
        \/ PrerequisiteChainRespond(r)
        \/ CoverageFetchFeatures(r)
        \/ CoverageFetchContent(r)
        \/ CoverageCountRow(r)
        \/ CoverageRespond(r)
        \/ Listing(r)
        \/ Forget(r)

ServerSpec == ServerInit /\ [][ServerNext]_vars

-----------------------------------------------------------------------------
(* Reading a returned tree *)

Range(s) == {s[j] : j \in 1..Len(s)}

RECURSIVE TreeNodes(_, _)
\* every node of the tree under n, with its distance from the root
TreeNodes(n, d) ==
    {[node |-> n, depth |-> d]} \cup
    UNION {TreeNodes(n.prerequisites[j], d + 1) : j \in 1..Len(n.prerequisites)}

RECURSIVE PreorderKeys(_), PreorderFrom(_, _)
\* the identifiers of the tree under n, parents before children
PreorderKeys(n) == <<n.feature_key>> \o PreorderFrom(n.prerequisites, 1)

PreorderFrom(children, j) ==
    IF j > Len(children) THEN <<>>
    ELSE PreorderKeys(children[j]) \o PreorderFrom(children, j + 1)

Occurrences(n, k) ==
    Cardinality({j \in 1..Len(PreorderKeys(n)) : PreorderKeys(n)[j] = k})

Height(n) ==
    LET ds == {x.depth : x \in TreeNodes(n, 0)}
    IN  CHOOSE d \in ds : \A e \in ds : e <= d

ChildKeys(n) == [j \in 1..Len(n.prerequisites) |-> n.prerequisites[j].feature_key]

RECURSIVE IsSubseq(_, _)
IsSubseq(s, t) ==
    IF s = <<>> THEN TRUE
    ELSE IF t = <<>> THEN FALSE
    ELSE IF Head(s) = Head(t) THEN IsSubseq(Tail(s), Tail(t))
    ELSE IsSubseq(s, Tail(t))

Returned == pc = "done" /\ tree # <<>>

\* the nodes of the returned tree that stand for a catalogued feature
CatalogNodes ==
    {x \in TreeNodes(tree[1], 0) : x.node.feature_key \in DOMAIN featureMap}

ListedOn(x) == Prereqs(featureMap[x.node.feature_key])

Dangling(x) == Range(ListedOn(x)) \ DOMAIN featureMap

\* n is the leaf that stands for the unresolved identifier p
IsPlaceholderLeaf(n, p) ==
    /\ n.feature_key = p
    /\ n.feature_name = <<"(not found in grammar_feature_map)">>
    /\ n.cefr_level = "unknown"
    /\ n.prerequisites = <<>>

HasPlaceholderChild(x, p) ==
    \E j \in 1..Len(x.node.prerequisites) :
        IsPlaceholderLeaf(x.node.prerequisites[j], p)

-----------------------------------------------------------------------------
(* Claims about cl_get_prerequisite_chain *)

\* C1: whenever the root identifier has no entry in the feature table, the
\* handler answers with the not-found error and returns no tree.
C1_MissingRootIsNotFound ==
    (pc = "done" /\ featureKey \notin DOMAIN featureMap)
        => (response.isError /\ response.tree = <<>>)

\* C2: for every feature table (cycles, self-references and dangling
\* identifiers included) and every root, the traversal eventually returns.
C2_Terminates == <>(pc = "done")

C2_Witness ==
    /\ pc = "done"
    /\ \E k \in DOMAIN featureMap :
          /\ k \in visited
          /\ k \in Range(Prereqs(featureMap[k]))

\* C3: no node of a returned tree lies more than 10 edges below the root; for
\* a chain of 15 (or more) features resolved from its head the tree has
\* exactly 10 levels below the root, the deepest node has no children and
\* the response is no error.
C3_DepthCap ==
    Returned =>
        /\ \A x \in TreeNodes(tree[1], 0) : x.depth <= 10
        /\ (/\ featureKey = 1
            /\ \E n \in 15..MaxChain : \E last \in PrereqColumns \cup {<<<<n + 1>>>>} :
                  featureMap = TableOf(Linked(n, last)))
              => /\ Height(tree[1]) = 10
                 /\ \A x \in TreeNodes(tree[1], 0) :
                       x.depth = 10 => x.node.prerequisites = <<>>
                 /\ ~response.isError

C3_Witness ==
    /\ Returned
    /\ featureKey = 1
    /\ featureMap = TableOf(Linked(15, <<<<>>>>))
    /\ Height(tree[1]) = 10
    /\ PreorderKeys(tree[1]) = [j \in 1..11 |-> j]

TwoCycle == TableOf([k \in 1..2 |-> <<<<3 - k>>>>])

\* C4: every identifier occurs at most once in a returned tree (an edge to an
\* identifier visited anywhere earlier in the call yields no child); for
\* {A: [B], B: [A]} the result is root A with the single child B, which has
\* no children.
C4_VisitedOnce ==
    Returned =>
        /\ \A k \in Range(PreorderKeys(tree[1])) : Occurrences(tree[1], k) = 1
        /\ (featureMap = TwoCycle /\ featureKey = 1)
              => /\ PreorderKeys(tree[1]) = <<1, 2>>
                 /\ ChildKeys(tree[1]) = <<2>>
                 /\ tree[1].prerequisites[1].prerequisites = <<>>

C4_Witness ==
    /\ Returned
    /\ featureMap = TwoCycle
    /\ featureKey = 1
    /\ PreorderKeys(tree[1]) = <<1, 2>>

\* C5 as stated: every feature in the tree has a placeholder child for each
\* of its prerequisites that has no entry in the feature table.
C5_PlaceholderUnderEveryLister ==
    Returned =>
        \A x \in CatalogNodes : \A p \in Dangling(x) :
            HasPlaceholderChild(x, p)

\* C5 amended: a prerequisite without an entry in the feature table, listed
\* on a feature in the tree less than 10 edges below the root, is in the tree
\* exactly once, as a placeholder leaf that is a child of a feature listing
\* it; every node without a table entry is such a placeholder leaf.
C5_PlaceholderOnce ==
    Returned =>
        /\ \A x \in CatalogNodes : \A p \in Dangling(x) :
              x.depth < 10 =>
                 /\ Occurrences(tree[1], p) = 1
                 /\ \E y \in CatalogNodes :
                       p \in Dangling(y) /\ HasPlaceholderChild(y, p)
        /\ \A x \in TreeNodes(tree[1], 0) :
              x.node.feature_key \notin DOMAIN featureMap
                 => IsPlaceholderLeaf(x.node, x.node.feature_key)

C5_Witness ==
    /\ Returned
    /\ featureKey \in DOMAIN featureMap
    /\ \E x, y \in CatalogNodes : \E p \in Dangling(x) \cap Dangling(y) :
          /\ x # y
          /\ HasPlaceholderChild(x, p)
          /\ ~HasPlaceholderChild(y, p)

\* C6: the identifiers of a feature node's children are a subsequence of the
\* feature's prerequisite list (same order), and a prerequisite without a
\* child was skipped by the depth rule or the already-visited rule.
C6_ChildrenInOrder ==
    Returned =>
        \A x \in CatalogNodes :
            /\ IsSubseq(ChildKeys(x.node), ListedOn(x))
            /\ \A p \in Range(ListedOn(x)) \ Range(ChildKeys(x.node)) :
                  x.depth = 10 \/ p \in Range(PreorderKeys(tree[1]))

C6_Witness ==
    /\ Returned
    /\ \E x \in CatalogNodes :
          /\ Len(ListedOn(x)) = 2
          /\ ListedOn(x)[1] # ListedOn(x)[2]
          /\ ChildKeys(x.node) = ListedOn(x)

-----------------------------------------------------------------------------
(* Claims about cl_coverage_report *)

Reported == coverage # <<>>

Rows == coverage[1].features

BandRank(level) ==
    CASE level = "A1" -> 0 [] level = "A2" -> 1 [] level = "B1" -> 2
      [] level = "B2" -> 3 [] level = "C1" -> 4 [] level = "C2" -> 5

\* where the feature of a row stood in the catalog
CatalogPosition(row) ==
    CHOOSE j \in 1..Len(featuresResult) :
        featuresResult[j].feature_key = row.feature_key

\* the grammar list of the i-th content item, empty when it has none
GrammarListOf(i) ==
    IF languageFeatures[i] = <<>> \/ languageFeatures[i][1] = <<>> THEN <<>>
    ELSE languageFeatures[i][1][1]

\* how often identifier k occurs in the grammar lists of all content items
Mentions(k) ==
    Cardinality(UNION {{<<i, j>> : j \in {h \in 1..Len(GrammarListOf(i)) :
                                              GrammarListOf(i)[h] = k}} :
                       i \in 1..Len(languageFeatures)})

RoundHalfUp(num, den) == (2 * num + den) \div (2 * den)

\* C7: covered + gaps = total_features = number of rows, gaps = number of
\* rows with is_gap, coverage_percent = round-half-up(100 * covered / total)
\* (0 for an empty catalog, whose report has no rows and an all-zero summary).
C7_SummaryInvariant ==
    Reported =>
        LET sum == coverage[1].summary
        IN  /\ sum.covered + sum.gaps = sum.total_features
            /\ sum.total_features = Len(Rows)
            /\ sum.gaps = Cardinality({j \in 1..Len(Rows) : Rows[j].is_gap})
            /\ sum.coverage_percent =
                  IF sum.total_features > 0
                  THEN RoundHalfUp(100 * sum.covered, sum.total_features)
                  ELSE 0
            /\ featuresResult = <<>> =>
                  /\ Rows = <<>>
                  /\ sum = [total_features |-> 0, covered |-> 0, gaps |-> 0,
                            coverage_percent |-> 0]

\* C8: the rows are in ascending band rank (A1 < A2 < B1 < B2 < C1 < C2), then
\* ascending content_count; rows equal on both keep their catalog order.
C8_StableOrder ==
    Reported =>
        \A i, j \in 1..Len(Rows) :
            i < j =>
               \/ BandRank(Rows[i].cefr_level) < BandRank(Rows[j].cefr_level)
               \/ /\ BandRank(Rows[i].cefr_level) = BandRank(Rows[j].cefr_level)
                  /\ Rows[i].content_count < Rows[j].content_count
               \/ /\ BandRank(Rows[i].cefr_level) = BandRank(Rows[j].cefr_level)
                  /\ Rows[i].content_count = Rows[j].content_count
                  /\ CatalogPosition(Rows[i]) < CatalogPosition(Rows[j])

C8_Witness ==
    /\ Reported
    /\ \E i, j, h \in 1..Len(Rows) :
          /\ i < j /\ j < h
          /\ Rows[i].cefr_level = Rows[h].cefr_level
          /\ Rows[i].content_count = Rows[j].content_count
          /\ Rows[j].content_count < Rows[h].content_count
          /\ CatalogPosition(Rows[h]) < CatalogPosition(Rows[i])
          /\ CatalogPosition(Rows[i]) < CatalogPosition(Rows[j])

-----------------------------------------------------------------------------
(* Claims about cl_get_content *)

Answered == contentResult # <<>>

Stratified == Answered /\ request[1].difficultyLevel = <<>>

\* the rows the query ranks: those that pass the topic and type filters
Candidates == {r \in content_items : WhereClause(r, request[1])}

ReturnedRows == Range(contentResult[1])

BandOf(row) ==
    CASE row.difficulty_level <= 20 -> "A1"
      [] row.difficulty_level > 20 /\ row.difficulty_level <= 35 -> "A2"
      [] row.difficulty_level > 35 /\ row.difficulty_level <= 50 -> "B1"
      [] row.difficulty_level > 50 /\ row.difficulty_level <= 70 -> "B2"
      [] row.difficulty_level > 70 /\ row.difficulty_level <= 90 -> "C1"
      [] row.difficulty_level > 90 -> "C2"

Bands == {"A1", "A2", "B1", "B2", "C1", "C2"}

\* C10: without difficultyLevel every band contributes at most
\* ceil(limit / 6) rows, and no candidate left out was created strictly
\* earlier than a returned row of its band.
C10_PerBandEarliest ==
    Stratified =>
        /\ \A b \in Bands :
              Cardinality({r \in ReturnedRows : BandOf(r) = b}) * 6 < request[1].limit + 6
        /\ \A r \in ReturnedRows : \A c \in Candidates \ ReturnedRows :
              BandOf(c) = BandOf(r) => c.created_at >= r.created_at

C10_Witness ==
    /\ Stratified
    /\ request[1].limit = 7
    /\ \E r \in ReturnedRows : \E c \in Candidates \ ReturnedRows :
          /\ BandOf(c) = BandOf(r)
          /\ c.created_at > r.created_at
          /\ Cardinality({q \in ReturnedRows : BandOf(q) = BandOf(r)}) = 2
    /\ \E r \in ReturnedRows : BandOf(r) = "A2"

\* C11: without difficultyLevel the result has at most 6 * ceil(limit / 6)
\* rows, where ceil(limit / 6) is the least n with 6 * n >= limit, and six
\* times the cap the handler passes to the query exceeds limit by at most 5,
\* by 0 when limit is a multiple of 6.
C11_LengthBound ==
    Stratified =>
        LET limit == request[1].limit
            ceil == CHOOSE n \in 0..limit : 6 * n >= limit /\ 6 * (n - 1) < limit
        IN  /\ Len(contentResult[1]) <= 6 * ceil
            /\ 6 * PerBandCap(limit) - limit \in 0..5
            /\ limit % 6 = 0 => 6 * PerBandCap(limit) = limit

C11_Witness ==
    /\ Stratified
    /\ request[1].limit = 1
    /\ Len(contentResult[1]) = 6
    /\ Cardinality(Candidates) = 7

\* C12: whatever arguments are present, the result has at most limit rows.
C12_AtMostLimit ==
    Answered => Len(contentResult[1]) <= request[1].limit

\* C13: without difficultyLevel the result is in ascending difficulty_level
\* and, among equal difficulty_level, ascending created_at, whatever the bands
\* of the rows; every row of it is a candidate and no row occurs twice.
C13_SortedCandidates ==
    Stratified =>
        LET rows == contentResult[1]
        IN  /\ \A i, j \in 1..Len(rows) :
                  i < j =>
                     \/ rows[i].difficulty_level < rows[j].difficulty_level
                     \/ /\ rows[i].difficulty_level = rows[j].difficulty_level
                        /\ rows[i].created_at <= rows[j].created_at
            /\ \A i \in 1..Len(rows) : rows[i] \in Candidates
            /\ \A i, j \in 1..Len(rows) : i < j => rows[i] # rows[j]

C13_Witness ==
    /\ Stratified
    /\ LET rows == contentResult[1]
       IN  /\ \E i, j \in 1..Len(rows) :
                 /\ i < j
                 /\ BandOf(rows[i]) # BandOf(rows[j])
                 /\ rows[i].created_at > rows[j].created_at
           /\ \E i, j \in 1..Len(rows) :
                 /\ i < j
                 /\ rows[i].difficulty_level = rows[j].difficulty_level
                 /\ rows[i].created_at < rows[j].created_at
           /\ Candidates \ Range(rows) # {}

-----------------------------------------------------------------------------
(* Claims about the CEFR bands *)

\* the band whose range of scores holds d
BandsHolding(d) ==
    {b \in Bands :
        \/ b = "A1" /\ d <= 20
        \/ b = "A2" /\ 20 < d /\ d <= 35
        \/ b = "B1" /\ 35 < d /\ d <= 50
        \/ b = "B2" /\ 50 < d /\ d <= 70
        \/ b = "C1" /\ 70 < d /\ d <= 90
        \/ b = "C2" /\ 90 < d}

\* C14: difficultyToCefr returns, for every score, the one band among the six
\* whose range (A1 <= 2.0 < A2 <= 3.5 < B1 <= 5.0 < B2 <= 7.0 < C1 <= 9.0 < C2)
\* holds the score, so 2.0, 3.5, 5.0, 7.0 and 9.0 are A1, A2, B1, B2 and C1;
\* the CASE of the stratified query gives the score the same band.
C14_BandOfScore ==
    /\ cefr # <<>> =>
          /\ BandsHolding(difficulty) = {cefr[1]}
          /\ difficulty = 20 => cefr[1] = "A1"
          /\ difficulty = 35 => cefr[1] = "A2"
          /\ difficulty = 50 => cefr[1] = "B1"
          /\ difficulty = 70 => cefr[1] = "B2"
          /\ difficulty = 90 => cefr[1] = "C1"
    /\ cefr # <<>> /\ partition # <<>> => partition[1] = cefr[1]

C14_Witness ==
    /\ difficulty = 20
    /\ cefr = <<"A1">>
    /\ partition = <<"A1">>

-----------------------------------------------------------------------------
(* Claims about the server *)

\* C15: no step of any tool changes a table: grammar_feature_map,
\* content_items and every other table stay as they were.
C15_ReadOnly ==
    [][\A t \in TableNames : db'[t] = db[t]]_vars

\* calls of the resolver, the coverage report and a listing tool have been made
C15_Witness ==
    /\ \E r \in DOMAIN calls :
          /\ calls[r].pc = "done"
          /\ calls[r].tool \in {"cl_get_prerequisite_chain", "cl_coverage_report"}
    /\ \E r \in DOMAIN calls :
          /\ calls[r].pc = "done"
          /\ calls[r].tool = "listing"
    /\ db \in Stores

\* the calls that have returned
Done == {r \in DOMAIN calls : calls[r].pc = "done"}

\* C16: two calls of the resolver on the same feature table and root, and two
\* calls of the coverage report on the same feature rows and content rows,
\* return the same response, however their steps and those of other calls
\* were ordered.
C16_SameInputSameOutput ==
    \A r, q \in Done :
        /\ (/\ calls[r].tool = "cl_get_prerequisite_chain"
            /\ calls[q].tool = "cl_get_prerequisite_chain"
            /\ calls[r].featureMap = calls[q].featureMap
            /\ calls[r].featureKey = calls[q].featureKey)
           => calls[r].response = calls[q].response
        /\ (/\ calls[r].tool = "cl_coverage_report"
            /\ calls[q].tool = "cl_coverage_report"
            /\ calls[r].featuresResult = calls[q].featuresResult
            /\ calls[r].contentResult = calls[q].contentResult)
           => calls[r].response = calls[q].response

C16_Witness ==
    \E r, q \in Done :
        /\ r # q
        /\ calls[r].tool = "cl_get_prerequisite_chain"
        /\ calls[q].tool = "cl_get_prerequisite_chain"
        /\ calls[r].featureMap = calls[q].featureMap
        /\ calls[r].featureKey = calls[q].featureKey
        /\ calls[r].visited = {1, 2, 3}
        /\ Len(calls[r].response[1].tree[1].prerequisites) = 2

-----------------------------------------------------------------------------
(* Claims about the features a returned tree holds *)

RECURSIVE Nearby(_)
\* the identifiers at most d prerequisite edges away from the root
Nearby(d) ==
    IF d = 0 THEN {featureKey}
    ELSE LET near == Nearby(d - 1)
         IN  near \cup UNION {Range(Prereqs(featureMap[k])) : k \in near \cap DOMAIN featureMap}

\* C17: every identifier at most 10 prerequisite edges away from the root is
\* the identifier of some node of the returned tree.
C17_NearbyFeaturesAppear ==
    Returned => \A k \in Nearby(10) : k \in Range(PreorderKeys(tree[1]))

-----------------------------------------------------------------------------
(* Claims about the counts of the coverage report *)

\* the content items whose grammar list holds the identifier k
ItemsReferencing(k) ==
    {i \in 1..Len(languageFeatures) : k \in Range(GrammarListOf(i))}

\* C18: content_count of every reported feature is the number of content
\* items whose grammar list holds the feature's identifier, an item counting
\* once however often its list repeats the identifier.
C18_CountsItems ==
    Reported =>
        \A j \in 1..Len(Rows) :
            Rows[j].content_count = Cardinality(ItemsReferencing(Rows[j].feature_key))

\* C19: whatever the order in which the steps of the calls in flight are
\* taken, a call of the resolver returns what buildTree run alone returns on
\* the feature table the call fetched, with the visited set that run leaves,
\* and a call of the coverage report returns what the report run alone
\* returns on the rows the call fetched.
C19_AsWhenRunAlone ==
    \A r \in Done :
        /\ calls[r].tool = "cl_get_prerequisite_chain" =>
              LET alone == BuildTree(calls[r].featureMap, calls[r].featureKey, 0, {})
              IN  /\ calls[r].response = <<Respond(alone.node)>>
                  /\ calls[r].visited = alone.visited
        /\ calls[r].tool = "cl_coverage_report" =>
              /\ calls[r].response =
                    <<CoverageOf(calls[r].featuresResult, calls[r].contentResult)>>
              /\ calls[r].featureCounts = CountRows(<<>>, calls[r].contentResult)

C19_Witness ==
    \E r, q \in DOMAIN calls :
        /\ r \in Done
        /\ calls[r].tool = "cl_get_prerequisite_chain"
        /\ calls[r].visited = {1, 2, 3}
        /\ calls[q].tool = "cl_coverage_report"
        /\ calls[q].pc = "count"
        /\ calls[q].i > 1
        /\ calls[q].featureCounts # <<>>

====
